---------------------------- MODULE Spec2Model ----------------------------
(***************************************************************************)
(* EdgeScan: the event loop of src/main.rs (run, maybe_redraw,             *)
(* handle_error), the egui framework of src/framework.rs (resize, prepare, *)
(* render), the surface manager of src/gpu.rs (reconfigure_surface,        *)
(* resize, prepare) and the window size kept by src/config.rs.             *)
(*                                                                         *)
(* One action is one invocation of the closure handed to event_loop.run:   *)
(* the platform delivers NewEvents, the window events of the batch,        *)
(* MainEventsCleared, RedrawRequested (when a redraw is pending) and       *)
(* RedrawEventsCleared, in that order, once per loop iteration.            *)
(*                                                                         *)
(* Every call a handler makes on the window, the logger, the surface, the  *)
(* egui renderer and the queue is recorded, in program order, in `calls`,  *)
(* which always holds the trace of the most recent handler only.           *)
(*                                                                         *)
(* Three specifications share the variables. Spec follows the event loop   *)
(* of a build for a platform other than macOS; a UI pass is there what     *)
(* egui_ctx.run yields for it. GuiSpec follows src/gui.rs through the UI   *)
(* passes: Gui::ui and the file-dialog threads it spawns and joins.        *)
(* PacingSpec follows the clock through the RedrawEventsCleared            *)
(* checkpoints of either build.                                            *)
(***************************************************************************)
EXTENDS Naturals, Sequences, FiniteSets

(* ------------------------------ bounds -------------------------------- *)

\* window dimensions range over 0..MaxDim (0: minimized)
MaxDim == 1

\* repaint_after durations range over 0..MaxRepaint (0: Duration::ZERO)
MaxRepaint == 1

\* texture ids are 1..MaxTex
MaxTex == 1

\* a UI pass tessellates at most MaxPrims clipped primitives
MaxPrims == 1

\* the Gui spawns at most MaxSpawn file-dialog threads in a run
MaxSpawn == 2

\* between two checkpoints 0..MaxElapsed clock ticks pass
MaxElapsed == 3

\* thread::sleep returns up to MaxOversleep clock ticks late
MaxOversleep == 1

\* the frame budget of 1/60 s, in clock ticks (a tick is half of it)
FrameBudget == 2

\* the clock is followed for two full iterations and one more frame
MaxClock == 2 * MaxElapsed + FrameBudget

Dims == 0..MaxDim

Sizes == Dims \X Dims

\* window.scale_factor(): fixed for the life of the window
ScaleFactors == {1, 2}

Durations == 0..MaxRepaint

TextureIds == 1..MaxTex

\* Option::None
None == <<>>

\* wgpu::SurfaceError, and "Ok" for a successful get_current_texture
SurfaceErrors == {"Timeout", "Outdated", "Lost", "OutOfMemory"}

AcquireOutcomes == {"Ok"} \cup SurfaceErrors

\* std::io / ron failures of Config::save, and "Ok"
SaveOutcomes == {"Ok", "Io", "Serialize"}

(* ------------------------------ helpers ------------------------------- *)

\* one recorded call: the operation and its argument
Call(op, arg) == [op |-> op, arg |-> arg]

RECURSIVE AscSeq(_)
\* the elements of a set of numbers as an ascending sequence
AscSeq(S) ==
    IF S = {} THEN <<>>
    ELSE LET m == CHOOSE x \in S : \A y \in S : x <= y
         IN <<m>> \o AscSeq(S \ {m})

\* positions of the calls of `cs` whose operation is `op`
Positions(cs, op) == {i \in 1..Len(cs) : cs[i].op = op}

\* how many calls of `cs` have operation `op`
Count(cs, op) == Cardinality(Positions(cs, op))

(* ---------------------------- src/config.rs ---------------------------- *)

\* Config::set_window_size: the logical size, (x as f64 / scale_factor) as u32
set_window_size(config, width, height, scale_factor) ==
    [config EXCEPT !.window_width = width \div scale_factor,
                   !.window_height = height \div scale_factor]

(* ------------------------------ src/gpu.rs ----------------------------- *)

\* impl From<wgpu::SurfaceError> for gpu::Error (#[from]), applied by `?`
FromSurfaceError(err) == [variant |-> "Surface", source |-> err]

\* Gpu::reconfigure_surface: configure the surface with self.window_size
reconfigure_surface(gpu) ==
    [gpu |-> [gpu EXCEPT !.surface = [width |-> gpu.window_size[1],
                                      height |-> gpu.window_size[2]]],
     calls |-> <<Call("configure", gpu.window_size)>>]

\* mutant of Gpu::resize: reconfigures without storing the new size
Gpu_resize_stale(gpu, window_size) ==
    reconfigure_surface(gpu)

\* Gpu::resize: store the size, then reconfigure the surface
Gpu_resize(gpu, window_size) ==
    reconfigure_surface([gpu EXCEPT !.window_size = window_size])

\* surface.get_current_texture(): a texture of the configured extent, or the
\* error the platform reports
get_current_texture(gpu, outcome) ==
    [result |-> IF outcome = "Ok"
                THEN [tag |-> "Ok",
                      frame |-> <<gpu.surface.width, gpu.surface.height>>]
                ELSE [tag |-> "Err", err |-> outcome],
     calls |-> <<Call("get_current_texture", outcome)>>]

\* mutant of Gpu::prepare: on Outdated it acquires again without having
\* reconfigured the surface
Gpu_prepare_no_reconfigure(gpu, first, second) ==
    LET a1 == get_current_texture(gpu, first) IN
    IF a1.result.tag = "Ok"
    THEN [gpu |-> gpu, result |-> a1.result,
          calls |-> a1.calls \o <<Call("create_command_encoder", None)>>]
    ELSE IF a1.result.err = "Outdated"
    THEN LET a2 == get_current_texture(gpu, second)
         IN IF a2.result.tag = "Ok"
            THEN [gpu |-> gpu, result |-> a2.result,
                  calls |-> a1.calls \o a2.calls
                            \o <<Call("create_command_encoder", None)>>]
            ELSE [gpu |-> gpu,
                  result |-> [tag |-> "Err",
                              err |-> FromSurfaceError(a2.result.err)],
                  calls |-> a1.calls \o a2.calls]
    ELSE [gpu |-> gpu,
          result |-> [tag |-> "Err", err |-> FromSurfaceError(a1.result.err)],
          calls |-> a1.calls]

\* mutant of Gpu::prepare: any failure of the first acquisition, not only
\* Outdated, is answered by a reconfigure and a second acquisition
Gpu_prepare_retry_any(gpu, first, second) ==
    LET a1 == get_current_texture(gpu, first) IN
    IF a1.result.tag = "Ok"
    THEN [gpu |-> gpu, result |-> a1.result,
          calls |-> a1.calls \o <<Call("create_command_encoder", None)>>]
    ELSE LET rc == reconfigure_surface(gpu)
             a2 == get_current_texture(rc.gpu, second)
         IN IF a2.result.tag = "Ok"
            THEN [gpu |-> rc.gpu, result |-> a2.result,
                  calls |-> a1.calls \o rc.calls \o a2.calls
                            \o <<Call("create_command_encoder", None)>>]
            ELSE [gpu |-> rc.gpu,
                  result |-> [tag |-> "Err",
                              err |-> FromSurfaceError(a2.result.err)],
                  calls |-> a1.calls \o rc.calls \o a2.calls]

\* Gpu::prepare: acquire a frame; on Outdated reconfigure and acquire again;
\* `first` and `second` are what the platform answers to the two attempts
Gpu_prepare(gpu, first, second) ==
    LET a1 == get_current_texture(gpu, first) IN
    IF a1.result.tag = "Ok"
    THEN [gpu |-> gpu, result |-> a1.result,
          calls |-> a1.calls \o <<Call("create_command_encoder", None)>>]
    ELSE IF a1.result.err = "Outdated"
    THEN LET rc == reconfigure_surface(gpu)
             a2 == get_current_texture(rc.gpu, second)
         IN IF a2.result.tag = "Ok"
            THEN [gpu |-> rc.gpu, result |-> a2.result,
                  calls |-> a1.calls \o rc.calls \o a2.calls
                            \o <<Call("create_command_encoder", None)>>]
            ELSE [gpu |-> rc.gpu,
                  result |-> [tag |-> "Err",
                              err |-> FromSurfaceError(a2.result.err)],
                  calls |-> a1.calls \o rc.calls \o a2.calls]
    ELSE [gpu |-> gpu,
          result |-> [tag |-> "Err", err |-> FromSurfaceError(a1.result.err)],
          calls |-> a1.calls]

(* --------------------------- src/framework.rs -------------------------- *)

\* mutant of Framework::resize: `||` for `&&` in the guard
Framework_resize_either(fw, window_size, scale_factor) ==
    IF window_size[1] > 0 \/ window_size[2] > 0
    THEN LET g == Gpu_resize(fw.gpu, window_size) IN
         [fw |-> [fw EXCEPT
                    !.gpu = g.gpu,
                    !.config = set_window_size(fw.config, window_size[1],
                                               window_size[2], scale_factor),
                    !.screen_descriptor =
                        [size_in_pixels |-> window_size,
                         pixels_per_point |-> scale_factor]],
          calls |-> g.calls]
    ELSE [fw |-> fw, calls |-> <<>>]

\* Framework::resize: ignored unless both dimensions are positive
Framework_resize(fw, window_size, scale_factor) ==
    IF window_size[1] > 0 /\ window_size[2] > 0
    THEN LET g == Gpu_resize(fw.gpu, window_size) IN
         [fw |-> [fw EXCEPT
                    !.gpu = g.gpu,
                    !.config = set_window_size(fw.config, window_size[1],
                                               window_size[2], scale_factor),
                    !.screen_descriptor =
                        [size_in_pixels |-> window_size,
                         pixels_per_point |-> scale_factor]],
          calls |-> g.calls]
    ELSE [fw |-> fw, calls |-> <<>>]

\* egui_ctx.tessellate: a list of clipped primitives, each named by its place
Tessellations == {[i \in 1..n |-> i] : n \in 0..MaxPrims}

\* what one egui_ctx.run yields: the repaint delay, the tessellated
\* primitives and the texture delta
UiOutputs ==
    [repaint_after : Durations,
     clipped_primitives : Tessellations,
     textures_delta : {[set |-> AscSeq(u), free |-> AscSeq(f)] :
                          u \in SUBSET TextureIds, f \in SUBSET TextureIds}]

\* Framework::prepare: run the UI pass, store its batch, return repaint_after
Framework_prepare(fw, output) ==
    [fw |-> [fw EXCEPT !.clipped_primitives = output.clipped_primitives,
                       !.textures_delta = output.textures_delta],
     repaint_after |-> output.repaint_after,
     calls |-> <<Call("ui", None)>>]

\* TexturesDelta::default()
NoTexturesDelta == [set |-> <<>>, free |-> <<>>]

\* the renderer.update_texture calls of the upload loop
UploadCalls(delta) ==
    [i \in 1..Len(delta.set) |-> Call("update_texture", delta.set[i])]

\* renderer.render: one draw per clipped primitive, in list order
DrawCalls(prims) ==
    [i \in 1..Len(prims) |-> Call("draw", prims[i])]

\* the renderer.free_texture calls of the cleanup loop
FreeCalls(delta) ==
    [i \in 1..Len(delta.free) |-> Call("free_texture", delta.free[i])]

\* mutant of Framework::render: the cleanup loop runs before the render pass
RenderFrame_free_first(fw, frame) ==
    UploadCalls(fw.textures_delta)
    \o <<Call("update_buffers", fw.screen_descriptor.size_in_pixels)>>
    \o FreeCalls(fw.textures_delta)
    \o <<Call("begin_render_pass", None)>>
    \o DrawCalls(fw.clipped_primitives)
    \o <<Call("end_render_pass", None),
         Call("submit", None), Call("present", frame)>>

\* mutant of Framework::render: the cleanup loop runs inside the render
\* pass's scope, before the pass is dropped
RenderFrame_free_in_pass(fw, frame) ==
    UploadCalls(fw.textures_delta)
    \o <<Call("update_buffers", fw.screen_descriptor.size_in_pixels),
         Call("begin_render_pass", None)>>
    \o DrawCalls(fw.clipped_primitives)
    \o FreeCalls(fw.textures_delta)
    \o <<Call("end_render_pass", None),
         Call("submit", None), Call("present", frame)>>

\* mutant of Framework::render: the frame is presented before the commands
\* are submitted
RenderFrame_present_first(fw, frame) ==
    UploadCalls(fw.textures_delta)
    \o <<Call("update_buffers", fw.screen_descriptor.size_in_pixels),
         Call("begin_render_pass", None)>>
    \o DrawCalls(fw.clipped_primitives)
    \o <<Call("end_render_pass", None)>>
    \o FreeCalls(fw.textures_delta)
    \o <<Call("present", frame), Call("submit", None)>>

\* the body of Framework::render after the frame has been acquired
RenderFrame(fw, frame) ==
    UploadCalls(fw.textures_delta)
    \o <<Call("update_buffers", fw.screen_descriptor.size_in_pixels),
         Call("begin_render_pass", None)>>
    \o DrawCalls(fw.clipped_primitives)
    \o <<Call("end_render_pass", None)>>
    \o FreeCalls(fw.textures_delta)
    \o <<Call("submit", None), Call("present", frame)>>

\* Framework::render
Framework_render(fw, first, second) ==
    LET p == Gpu_prepare(fw.gpu, first, second) IN
    IF p.result.tag = "Err"
    THEN [fw |-> [fw EXCEPT !.gpu = p.gpu], result |-> p.result,
          calls |-> p.calls]
    ELSE [fw |-> [fw EXCEPT !.gpu = p.gpu,
                            !.textures_delta = NoTexturesDelta],
          result |-> [tag |-> "Ok"],
          calls |-> p.calls \o RenderFrame(fw, p.result.frame)]

(* ------------------------------- src/gui.rs ---------------------------- *)

\* the JoinHandle of the n-th thread the Gui has spawned
JoinHandle(id) == <<id>>

\* the SignalDB parsed by the n-th thread
SignalDB(id) == <<id>>

\* a spawned thread before its closure has returned
Running == [status |-> "running", tag |-> "-", value |-> None]

\* what join() gives for the thread `id` once its closure is over: Ok(Some(db))
\* after a pick, a read and a parse that all worked, Ok(None) when the dialog
\* was cancelled or the read or the parse failed, and Err when it panicked
ThreadResults(id) ==
    {[tag |-> "Ok", value |-> SignalDB(id)],
     [tag |-> "Ok", value |-> None],
     [tag |-> "Err", value |-> None]}

\* Option::or
Option_or(a, b) == IF a # None THEN a ELSE b

\* Gui::new
Gui_new ==
    [enabled |-> TRUE, about_open |-> FALSE, vcd |-> None,
     file_dialog |-> None]

\* mutant of the poll block: the result of the join is stored as it is
Gui_poll_overwrite(g, ts) ==
    IF g.file_dialog = None
    THEN [gui |-> g, threads |-> ts, calls |-> <<>>]
    ELSE LET id == g.file_dialog[1] IN
         IF ts[id].status # "finished"
         THEN [gui |-> g, threads |-> ts,
               calls |-> <<Call("is_finished", <<id, FALSE>>)>>]
         ELSE [gui |-> [g EXCEPT !.file_dialog = None,
                                 !.vcd = IF ts[id].tag = "Ok"
                                         THEN ts[id].value
                                         ELSE g.vcd,
                                 !.enabled = TRUE],
               threads |-> [ts EXCEPT ![id].status = "joined"],
               calls |-> <<Call("is_finished", <<id, TRUE>>),
                           Call("take", JoinHandle(id)),
                           Call("join", JoinHandle(id))>>]

\* mutant of the poll block: the handle is joined without asking is_finished
Gui_poll_blocking(g, ts) ==
    IF g.file_dialog = None
    THEN [gui |-> g, threads |-> ts, calls |-> <<>>]
    ELSE LET id == g.file_dialog[1] IN
         [gui |-> [g EXCEPT !.file_dialog = None,
                            !.vcd = IF ts[id].tag = "Ok"
                                    THEN Option_or(ts[id].value, g.vcd)
                                    ELSE g.vcd,
                            !.enabled = TRUE],
          threads |-> [ts EXCEPT ![id].status = "joined"],
          calls |-> <<Call("take", JoinHandle(id)),
                      Call("join", JoinHandle(id))>>]

\* the poll block of Gui::ui: when the thread of the stored handle has
\* finished, take the handle, join it, keep an Ok(Some(db)) and fall back to
\* the model already loaded on Ok(None); a panic leaves the model alone
Gui_poll(g, ts) ==
    IF g.file_dialog = None
    THEN [gui |-> g, threads |-> ts, calls |-> <<>>]
    ELSE LET id == g.file_dialog[1] IN
         IF ts[id].status # "finished"
         THEN [gui |-> g, threads |-> ts,
               calls |-> <<Call("is_finished", <<id, FALSE>>)>>]
         ELSE [gui |-> [g EXCEPT !.file_dialog = None,
                                 !.vcd = IF ts[id].tag = "Ok"
                                         THEN Option_or(ts[id].value, g.vcd)
                                         ELSE g.vcd,
                                 !.enabled = TRUE],
               threads |-> [ts EXCEPT ![id].status = "joined"],
               calls |-> <<Call("is_finished", <<id, TRUE>>),
                           Call("take", JoinHandle(id)),
                           Call("join", JoinHandle(id))>>]

\* what the user can do to the widgets of one UI pass
Clicks == {"None", "Open", "Close", "About", "AboutClosed"}

\* mutant of the menu bar: the Open button answers while the Gui is disabled
Gui_menu_unguarded(g, ts, click) ==
    IF click = "Open"
    THEN [gui |-> [g EXCEPT !.file_dialog = JoinHandle(Len(ts) + 1),
                            !.enabled = FALSE],
          threads |-> Append(ts, Running),
          calls |-> <<Call("clicked", "Open"),
                      Call("spawn", JoinHandle(Len(ts) + 1))>>]
    ELSE [gui |-> g, threads |-> ts, calls |-> <<>>]

\* the menu bar and the About window of Gui::ui: widgets answer only while
\* the Gui is enabled, and the Close button exists only with a model loaded
Gui_menu(g, ts, click) ==
    IF ~g.enabled
    THEN [gui |-> g, threads |-> ts, calls |-> <<>>]
    ELSE IF click = "Open"
    THEN [gui |-> [g EXCEPT !.file_dialog = JoinHandle(Len(ts) + 1),
                            !.enabled = FALSE],
          threads |-> Append(ts, Running),
          calls |-> <<Call("clicked", "Open"),
                      Call("spawn", JoinHandle(Len(ts) + 1))>>]
    ELSE IF click = "Close" /\ g.vcd # None
    THEN [gui |-> [g EXCEPT !.vcd = None], threads |-> ts,
          calls |-> <<Call("clicked", "Close")>>]
    ELSE IF click = "About"
    THEN [gui |-> [g EXCEPT !.about_open = TRUE], threads |-> ts,
          calls |-> <<Call("clicked", "About")>>]
    ELSE IF click = "AboutClosed" /\ g.about_open
    THEN [gui |-> [g EXCEPT !.about_open = FALSE], threads |-> ts,
          calls |-> <<Call("clicked", "AboutClosed")>>]
    ELSE [gui |-> g, threads |-> ts, calls |-> <<>>]

\* Gui::ui: poll the file dialog, then draw the menu bar and the windows
Gui_ui(g, ts, click) ==
    LET p == Gui_poll(g, ts)
        m == Gui_menu(p.gui, p.threads, click)
    IN [gui |-> m.gui, threads |-> m.threads, calls |-> p.calls \o m.calls]

(* ------------------------------ src/main.rs ---------------------------- *)

\* mutant of maybe_redraw: Poll is set but the redraw is not requested
maybe_redraw_no_request(do_it) ==
    IF do_it
    THEN [control_flow |-> "Poll", calls |-> <<>>]
    ELSE [control_flow |-> "Wait", calls |-> <<>>]

\* maybe_redraw
maybe_redraw(do_it) ==
    IF do_it
    THEN [control_flow |-> "Poll", calls |-> <<Call("request_redraw", None)>>]
    ELSE [control_flow |-> "Wait", calls |-> <<>>]

\* msgbox::create: the box was shown, or could not be created
MsgBoxOutcomes == {"Ok", "Err"}

\* handle_error: log the error, then show it in a message box; the unwrap
\* panics when the box could not be created
handle_error(err, box) ==
    [calls |-> <<Call("error!", err), Call("msgbox", err)>>
               \o (IF box = "Err" THEN <<Call("panic", "unwrap")>> ELSE <<>>),
     panicked |-> box = "Err"]

\* mutant of the macOS block: the thread sleeps a whole frame budget at
\* every checkpoint
Pace_full_sleep(mac, since, time, over) ==
    IF ~mac
    THEN [now |-> since, clock |-> time, calls |-> <<>>]
    ELSE [now |-> time + FrameBudget + over,
          clock |-> time + FrameBudget + over,
          calls |-> <<Call("elapsed", time - since),
                      Call("sleep", FrameBudget),
                      Call("Instant::now", time + FrameBudget + over)>>]

\* the Event::RedrawEventsCleared arm, compiled for macOS only: sleep for
\* what is left of the frame budget since `now`, then set `now` again;
\* thread::sleep returns `over` ticks after the time asked for
Pace(mac, since, time, over) ==
    IF ~mac
    THEN [now |-> since, clock |-> time, calls |-> <<>>]
    ELSE LET target == FrameBudget
             actual == time - since
         IN IF target > actual
            THEN [now |-> time + (target - actual) + over,
                  clock |-> time + (target - actual) + over,
                  calls |-> <<Call("elapsed", actual),
                              Call("sleep", target - actual),
                              Call("Instant::now",
                                   time + (target - actual) + over)>>]
            ELSE [now |-> time, clock |-> time,
                  calls |-> <<Call("elapsed", actual),
                              Call("Instant::now", time)>>]

(* ------------------------------- state --------------------------------- *)

VARIABLES
    stage,           \* where the platform is in the current loop iteration
    event,           \* the event the closure handled last
    control_flow,    \* *control_flow when the last handler returned
    exiting,         \* the loop has seen ControlFlow::Exit, which is final
    repaint,         \* run's local `repaint`
    input,           \* what WinitInputHelper collected in the current batch
    redraw_pending,  \* a redraw has been requested and not yet delivered
    minimized,       \* the window's last reported size has a zero dimension
    scale_factor,    \* window.scale_factor()
    framework,       \* the Framework: gpu, screen_descriptor, config, batch
    prepared,        \* what Gpu::prepare returned in the last handler, or None
    calls,           \* the calls the last handler made, in program order
    waited,          \* how long the loop has been asleep waiting for an event
    gui,             \* the Gui: enabled, about_open, vcd, file_dialog
    threads,         \* the file-dialog threads spawned so far, by spawn order
    macos,           \* the build is for target_os = "macos"
    clock,           \* the monotonic clock Instant::now() reads
    now              \* run's local `now` (macOS build only)

vars == <<stage, event, control_flow, exiting, repaint, input, redraw_pending,
          minimized, scale_factor, framework, prepared, calls, waited, gui,
          threads, macos, clock, now>>

\* the platform and the clock, which PacingSpec follows
pace_vars == <<macos, clock, now>>

\* the state Spec leaves alone: there a UI pass is what egui_ctx.run yields
\* for it, and what Gui::ui does to the Gui is followed by GuiSpec; and Spec
\* is the build for a platform other than macOS, where no handler reads the
\* clock
aside == <<gui, threads, pace_vars>>

\* the state of the event loop, which GuiSpec leaves alone
loop_vars == <<stage, control_flow, exiting, repaint, input, redraw_pending,
               minimized, scale_factor, framework, prepared, waited>>

\* WinitInputHelper::step, on NewEvents: forget the previous batch
step == [quit |-> FALSE, window_resized |-> None]

\* the window events of a batch: a resize, a close request, any other input
WindowEvents ==
    {[kind |-> "Resized", size |-> s] : s \in Sizes}
    \cup {[kind |-> "CloseRequested", size |-> None],
          [kind |-> "Input", size |-> None]}

\* WinitInputHelper::update on a window event: record resizes and close requests
process_window_event(helper, e) ==
    IF e.kind = "Resized" THEN [helper EXCEPT !.window_resized = e.size]
    ELSE IF e.kind = "CloseRequested" THEN [helper EXCEPT !.quit = TRUE]
    ELSE helper

\* *control_flow as a handler finds it: Exit once the loop is exiting
Entry == IF exiting THEN "Exit" ELSE control_flow

\* run, up to the call of event_loop.run: the window is built at the saved
\* logical size, and Gpu::new and Framework::new take window.inner_size()
Constructed ==
    /\ stage = "Idle"
    /\ event = "None"
    /\ control_flow = "Poll"
    /\ exiting = FALSE
    /\ repaint = 0
    /\ input = step
    /\ redraw_pending = FALSE
    /\ minimized = FALSE
    /\ scale_factor \in ScaleFactors
    /\ \E w \in 1..MaxDim, h \in 1..MaxDim :
         framework =
           [gpu |-> [window_size |-> <<w * scale_factor, h * scale_factor>>,
                     surface |-> [width |-> w * scale_factor,
                                  height |-> h * scale_factor]],
            screen_descriptor |->
                [size_in_pixels |-> <<w * scale_factor, h * scale_factor>>,
                 pixels_per_point |-> scale_factor],
            config |-> [window_width |-> w, window_height |-> h],
            clipped_primitives |-> <<>>,
            textures_delta |-> NoTexturesDelta]
    /\ prepared = None
    /\ calls = <<>>
    /\ waited = 0
    /\ gui = Gui_new
    /\ threads = <<>>
    /\ clock = 0
    /\ now = 0

\* the build for a platform other than macOS
Init == Constructed /\ macos = FALSE

\* either build
PacingInit == Constructed /\ macos \in BOOLEAN

(* ------------------------------ handlers ------------------------------- *)

\* the loop is asleep under ControlFlow::Wait, which names no deadline, and
\* time passes without an event arriving
Asleep ==
    /\ stage = "Idle"
    /\ ~exiting
    /\ control_flow = "Wait"
    /\ waited <= MaxRepaint
    /\ waited' = waited + 1
    /\ UNCHANGED <<stage, event, control_flow, exiting, repaint, input,
                   redraw_pending, minimized, scale_factor, framework,
                   prepared, calls>>
    /\ UNCHANGED aside

\* Event::NewEvents: input.update steps the helper; no arm of the match applies
NewEvents ==
    /\ stage = "Idle"
    /\ stage' = "Events"
    /\ waited' = 0
    /\ event' = "NewEvents"
    /\ input' = step
    /\ control_flow' = Entry
    /\ prepared' = None
    /\ calls' = <<>>
    /\ UNCHANGED <<exiting, repaint, redraw_pending, minimized, scale_factor,
                   framework>>
    /\ UNCHANGED aside

\* Event::WindowEvent: input.update records it, then the WindowEvent arm hands
\* it to framework.handle_event, whose response says whether to repaint
WindowEvent ==
    /\ stage = "Events"
    /\ \E e \in WindowEvents, response \in BOOLEAN :
         LET m == maybe_redraw(response) IN
         /\ input' = process_window_event(input, e)
         /\ control_flow' = m.control_flow
         /\ redraw_pending' =
              (redraw_pending \/ Count(m.calls, "request_redraw") > 0)
         /\ minimized' = IF e.kind = "Resized"
                         THEN e.size[1] = 0 \/ e.size[2] = 0
                         ELSE minimized
         /\ calls' = <<Call("handle_event", response)>> \o m.calls
    /\ event' = "WindowEvent"
    /\ prepared' = None
    /\ UNCHANGED <<stage, exiting, repaint, scale_factor, framework>>
    /\ UNCHANGED waited
    /\ UNCHANGED aside

\* the platform itself asks for a redraw (the window was exposed)
Exposed ==
    /\ stage = "Events"
    /\ ~redraw_pending
    /\ redraw_pending' = TRUE
    /\ UNCHANGED <<stage, event, control_flow, exiting, repaint, input,
                   minimized, scale_factor, framework, prepared, calls>>
    /\ UNCHANGED waited
    /\ UNCHANGED aside

\* the `if input.quit()` block: save the configuration, report a failure,
\* then exit; a panic in handle_error leaves *control_flow as it was
Quit(entry, saved, box) ==
    IF saved = "Ok"
    THEN [control_flow |-> "Exit", panicked |-> FALSE,
          calls |-> <<Call("save", saved)>>]
    ELSE LET h == handle_error(saved, box) IN
         [control_flow |-> IF h.panicked THEN entry ELSE "Exit",
          panicked |-> h.panicked,
          calls |-> <<Call("save", saved)>> \o h.calls]

\* mutant of the update block: maybe_redraw is given !repaint.is_zero()
Update_inverted(fw, helper, scale, output) ==
    LET r == IF helper.window_resized # None
             THEN Framework_resize(fw, helper.window_resized, scale)
             ELSE [fw |-> fw, calls |-> <<>>]
        p == Framework_prepare(r.fw, output)
        m == maybe_redraw(p.repaint_after # 0)
    IN [fw |-> p.fw, repaint |-> p.repaint_after,
        control_flow |-> m.control_flow,
        calls |-> r.calls \o p.calls \o m.calls]

\* mutant of the update block: a batch without a resize gets no UI pass
Update_skip_pass(fw, helper, scale, output) ==
    IF helper.window_resized = None
    THEN [fw |-> fw, repaint |-> output.repaint_after,
          control_flow |-> "Wait", calls |-> <<>>]
    ELSE LET r == Framework_resize(fw, helper.window_resized, scale)
             p == Framework_prepare(r.fw, output)
             m == maybe_redraw(p.repaint_after = 0)
         IN [fw |-> p.fw, repaint |-> p.repaint_after,
             control_flow |-> m.control_flow,
             calls |-> r.calls \o p.calls \o m.calls]

\* mutant of the update block: the UI pass runs before the resize
Update_pass_first(fw, helper, scale, output) ==
    LET p == Framework_prepare(fw, output)
        r == IF helper.window_resized # None
             THEN Framework_resize(p.fw, helper.window_resized, scale)
             ELSE [fw |-> p.fw, calls |-> <<>>]
        m == maybe_redraw(p.repaint_after = 0)
    IN [fw |-> r.fw, repaint |-> p.repaint_after,
        control_flow |-> m.control_flow,
        calls |-> p.calls \o r.calls \o m.calls]

\* mutant of the update block: the handler for which input.update returned
\* true hands its event to framework.handle_event as well
Update_forwards(fw, helper, scale, output) ==
    LET r == IF helper.window_resized # None
             THEN Framework_resize(fw, helper.window_resized, scale)
             ELSE [fw |-> fw, calls |-> <<>>]
        p == Framework_prepare(r.fw, output)
        m == maybe_redraw(p.repaint_after = 0)
    IN [fw |-> p.fw, repaint |-> p.repaint_after,
        control_flow |-> m.control_flow,
        calls |-> r.calls \o p.calls \o m.calls
                  \o <<Call("handle_event", FALSE)>>]

\* mutant of the update block: the UI pass never asks for a redraw
Update_always_wait(fw, helper, scale, output) ==
    LET r == IF helper.window_resized # None
             THEN Framework_resize(fw, helper.window_resized, scale)
             ELSE [fw |-> fw, calls |-> <<>>]
        p == Framework_prepare(r.fw, output)
        m == maybe_redraw(FALSE)
    IN [fw |-> p.fw, repaint |-> p.repaint_after,
        control_flow |-> m.control_flow,
        calls |-> r.calls \o p.calls \o m.calls]

\* the rest of the `if input.update(&event)` block: resize, UI pass, redraw
Update(fw, helper, scale, output) ==
    LET r == IF helper.window_resized # None
             THEN Framework_resize(fw, helper.window_resized, scale)
             ELSE [fw |-> fw, calls |-> <<>>]
        p == Framework_prepare(r.fw, output)
        m == maybe_redraw(p.repaint_after = 0)
    IN [fw |-> p.fw, repaint |-> p.repaint_after,
        control_flow |-> m.control_flow,
        calls |-> r.calls \o p.calls \o m.calls]

\* Event::MainEventsCleared: input.update returns true
MainEventsCleared ==
    /\ stage = "Events"
    /\ event' = "MainEventsCleared"
    /\ prepared' = None
    /\ IF input.quit
       THEN \E saved \in SaveOutcomes, box \in MsgBoxOutcomes :
              LET q == Quit(Entry, saved, box) IN
              /\ saved = "Ok" => box = "Ok"
              /\ control_flow' = q.control_flow
              /\ calls' = q.calls
              /\ exiting' = (exiting \/ ~q.panicked)
              /\ stage' = IF q.panicked THEN "Panicked"
                          ELSE IF redraw_pending THEN "Redraw"
                          ELSE "Cleared"
              /\ UNCHANGED <<repaint, redraw_pending, framework>>
       ELSE \E output \in UiOutputs :
              LET u == Update(framework, input, scale_factor, output) IN
              /\ framework' = u.fw
              /\ repaint' = u.repaint
              /\ control_flow' = u.control_flow
              /\ calls' = u.calls
              /\ redraw_pending' =
                   (redraw_pending \/ Count(u.calls, "request_redraw") > 0)
              /\ stage' = IF redraw_pending' THEN "Redraw" ELSE "Cleared"
              /\ UNCHANGED exiting
    /\ UNCHANGED <<input, minimized, scale_factor>>
    /\ UNCHANGED waited
    /\ UNCHANGED aside

\* mutant of the RedrawRequested arm: another redraw is asked for after
\* every successful render
Redraw_always(fw, first, second, pending_repaint) ==
    LET r == Framework_render(fw, first, second) IN
    IF r.result.tag = "Err"
    THEN [fw |-> r.fw, control_flow |-> "Exit",
          calls |-> r.calls \o <<Call("error!", r.result.err)>>]
    ELSE LET m == maybe_redraw(TRUE) IN
         [fw |-> r.fw, control_flow |-> m.control_flow,
          calls |-> r.calls \o m.calls]

\* the Event::RedrawRequested arm: render, and exit when rendering fails
Redraw(fw, first, second, pending_repaint) ==
    LET r == Framework_render(fw, first, second) IN
    IF r.result.tag = "Err"
    THEN [fw |-> r.fw, control_flow |-> "Exit",
          calls |-> r.calls \o <<Call("error!", r.result.err)>>]
    ELSE LET m == maybe_redraw(pending_repaint = 0) IN
         [fw |-> r.fw, control_flow |-> m.control_flow,
          calls |-> r.calls \o m.calls]

\* Event::RedrawRequested: the pending redraw is delivered
RedrawRequested ==
    /\ stage = "Redraw"
    /\ stage' = "Cleared"
    /\ event' = "RedrawRequested"
    /\ \E first \in AcquireOutcomes, second \in AcquireOutcomes :
         LET d == Redraw(framework, first, second, repaint) IN
         /\ framework' = d.fw
         /\ control_flow' = d.control_flow
         /\ calls' = d.calls
         /\ prepared' = Gpu_prepare(framework.gpu, first, second).result
         /\ exiting' = (exiting \/ d.control_flow = "Exit")
         /\ redraw_pending' = (Count(d.calls, "request_redraw") > 0)
    /\ UNCHANGED <<repaint, input, minimized, scale_factor>>
    /\ UNCHANGED waited
    /\ UNCHANGED aside

\* Event::RedrawEventsCleared: the frame pacing of the macOS build, nothing
\* in any other build; the iteration ends
RedrawEventsCleared ==
    /\ stage = "Cleared"
    /\ stage' = IF exiting THEN "Destroyed" ELSE "Idle"
    /\ event' = "RedrawEventsCleared"
    /\ control_flow' = Entry
    /\ prepared' = None
    /\ \E over \in 0..(IF macos THEN MaxOversleep ELSE 0) :
         LET p == Pace(macos, now, clock, over) IN
         /\ p.clock <= MaxClock
         /\ clock' = p.clock
         /\ now' = p.now
         /\ calls' = p.calls
    /\ UNCHANGED <<exiting, repaint, input, redraw_pending, minimized,
                   scale_factor, framework>>
    /\ UNCHANGED waited
    /\ UNCHANGED <<gui, threads, macos>>

\* Event::LoopDestroyed: an exiting loop may stop before the iteration is over
LoopDestroyed ==
    /\ exiting
    /\ stage \in {"Redraw", "Cleared"}
    /\ stage' = "Destroyed"
    /\ event' = "LoopDestroyed"
    /\ control_flow' = "Exit"
    /\ prepared' = None
    /\ calls' = <<>>
    /\ UNCHANGED <<exiting, repaint, input, redraw_pending, minimized,
                   scale_factor, framework>>
    /\ UNCHANGED waited
    /\ UNCHANGED aside

Next ==
    \/ Asleep
    \/ NewEvents
    \/ WindowEvent
    \/ Exposed
    \/ MainEventsCleared
    \/ RedrawRequested
    \/ RedrawEventsCleared
    \/ LoopDestroyed

Spec == Init /\ [][Next]_vars

(* ------------------------ the Gui and its threads ----------------------- *)

\* one UI pass as Gui::ui runs it inside Framework::prepare
UiPass ==
    /\ \E click \in Clicks :
         /\ click = "Open" => Len(threads) < MaxSpawn
         /\ LET u == Gui_ui(gui, threads, click) IN
            /\ gui' = u.gui
            /\ threads' = u.threads
            /\ calls' = u.calls
    /\ event' = "MainEventsCleared"
    /\ UNCHANGED loop_vars
    /\ UNCHANGED pace_vars

\* the closure of a spawned thread returns, or panics
ThreadEnds ==
    /\ \E id \in 1..Len(threads) :
         /\ threads[id].status = "running"
         /\ \E r \in ThreadResults(id) :
              threads' = [threads EXCEPT ![id] =
                            [status |-> "finished", tag |-> r.tag,
                             value |-> r.value]]
    /\ UNCHANGED <<event, calls, gui>>
    /\ UNCHANGED loop_vars
    /\ UNCHANGED pace_vars

GuiNext ==
    \/ UiPass
    \/ ThreadEnds

GuiSpec == Init /\ [][GuiNext]_vars

(* ------------------------------ frame pacing --------------------------- *)

\* one iteration up to its checkpoint, as the clock sees it: the loop waits
\* for events and runs the handlers before RedrawEventsCleared, which takes
\* some time
Elapse ==
    /\ stage = "Idle"
    /\ ~exiting
    /\ stage' = "Cleared"
    /\ event' = "MainEventsCleared"
    /\ calls' = <<>>
    /\ \E d \in 0..MaxElapsed :
         /\ clock + d <= MaxClock
         /\ clock' = clock + d
    /\ UNCHANGED <<control_flow, exiting, repaint, input, redraw_pending,
                   minimized, scale_factor, framework, prepared, waited>>
    /\ UNCHANGED <<gui, threads, macos, now>>

PacingNext ==
    \/ Elapse
    \/ RedrawEventsCleared

PacingSpec == PacingInit /\ [][PacingNext]_vars

(* ---------------------------- observations ----------------------------- *)

\* the last handler ran the UI pass (Framework::prepare, then maybe_redraw)
UiPassRan == event = "MainEventsCleared" /\ Count(calls, "ui") = 1

\* the last handler called Framework::render
RenderRan == event = "RedrawRequested" /\ prepared # None

\* what input.update(&event) returned to the last handler: true for
\* MainEventsCleared, the one event the input layer answers for itself, and
\* false for every other event, which it only takes note of
update(e) == e = "MainEventsCleared"

\* how many times the last handler called window.request_redraw
RedrawRequests == Count(calls, "request_redraw")

\* the surface acquisitions of the last handler, in order
Acquisitions ==
    SelectSeq(calls, LAMBDA c : c.op = "get_current_texture")

\* the places in the last handler's trace where a frame was acquired
Acquired ==
    {i \in Positions(calls, "get_current_texture") : calls[i].arg = "Ok"}

\* a reported size with a zero dimension
ZeroArea(size) == size # None /\ (size[1] = 0 \/ size[2] = 0)

\* a reported size with both dimensions positive
Positive(size) == size # None /\ size[1] > 0 /\ size[2] > 0

\* every call `a` of the trace comes before every call `b`
AllBefore(cs, a, b) ==
    \A i \in Positions(cs, a), j \in Positions(cs, b) : i < j

(* ------------------------------- claims -------------------------------- *)

\* C1: after a UI pass, a zero repaint duration gives Poll and exactly one
\* request_redraw, which is then pending; a positive one gives Wait and no
\* request_redraw, and while the duration stays positive no handler other
\* than a window event's asks for a redraw.
C1_RepaintDecides ==
    /\ UiPassRan /\ repaint = 0 =>
         /\ control_flow = "Poll"
         /\ RedrawRequests = 1
         /\ redraw_pending
         /\ stage = "Redraw"
    /\ UiPassRan /\ repaint > 0 =>
         /\ control_flow = "Wait"
         /\ RedrawRequests = 0
    /\ event # "WindowEvent" /\ repaint > 0 => RedrawRequests = 0

\* C1 witness: a UI pass has just returned a zero duration
C1_Witness ==
    UiPassRan /\ repaint = 0 /\ control_flow = "Poll" /\ RedrawRequests = 1

\* C1 second case reached: a UI pass has just returned a positive duration
\* while a redraw asked for by a window event of the batch is still pending
C1_PositiveReached ==
    UiPassRan /\ repaint > 0 /\ control_flow = "Wait" /\ redraw_pending

\* C2: a UI pass that returns zero sets Poll and leaves the loop running
\* with a redraw to deliver, and the very next handler the loop invokes is
\* the redraw handler, which calls Framework::render: no NewEvents and no
\* window event comes in between.
C2_ZeroRepaintRenders ==
    /\ [][(UiPassRan /\ repaint = 0)' =>
            (control_flow = "Poll" /\ stage = "Redraw" /\ ~exiting)']_vars
    /\ [][(UiPassRan /\ repaint = 0) =>
            (RenderRan /\ Count(calls, "get_current_texture") > 0)']_vars

\* C2 witness: the render that follows a zero repaint, in an iteration whose
\* batch held neither a resize nor a close request
C2_Witness ==
    /\ RenderRan
    /\ repaint = 0
    /\ input = step
    /\ Count(calls, "present") = 1

\* C3: when the first acquisition of Gpu::prepare fails Outdated, the surface
\* is configured once, between two acquisitions, and the outcome of the
\* second is the outcome of the call: its frame, or its error; and no call
\* acquires more than twice or configures more than once.
C3_OutdatedRetriesOnce ==
    RenderRan =>
      /\ Len(Acquisitions) \in {1, 2}
      /\ Count(calls, "configure") <= 1
      /\ Acquisitions[1].arg = "Outdated" =>
           /\ Len(Acquisitions) = 2
           /\ Count(calls, "configure") = 1
           /\ calls[1].op = "get_current_texture"
           /\ calls[2] = Call("configure", framework.gpu.window_size)
           /\ calls[3].op = "get_current_texture"
           /\ IF Acquisitions[2].arg = "Ok"
              THEN prepared.tag = "Ok"
              ELSE prepared = [tag |-> "Err",
                               err |-> [variant |-> "Surface",
                                        source |-> Acquisitions[2].arg]]

\* C3 witness: Outdated twice in one call, and the second one is propagated
C3_Witness ==
    /\ RenderRan
    /\ Len(Acquisitions) = 2
    /\ Acquisitions[1].arg = "Outdated"
    /\ Acquisitions[2].arg = "Outdated"
    /\ prepared.tag = "Err"

\* C3 other case reached: the retry succeeds and its frame is presented
C3_RetrySucceeds ==
    /\ RenderRan
    /\ Len(Acquisitions) = 2
    /\ Acquisitions[2].arg = "Ok"
    /\ Count(calls, "present") = 1

\* C4: when the first acquisition fails with an error other than Outdated,
\* Gpu::prepare returns that very error (as gpu::Error::Surface), without
\* configuring the surface and without acquiring again.
C4_OtherErrorsPropagate ==
    (RenderRan /\ Acquisitions[1].arg \in SurfaceErrors \ {"Outdated"}) =>
      /\ prepared = [tag |-> "Err",
                     err |-> [variant |-> "Surface",
                              source |-> Acquisitions[1].arg]]
      /\ Count(calls, "configure") = 0
      /\ Len(Acquisitions) = 1

\* C4 witness: the first acquisition timed out
C4_Witness ==
    /\ RenderRan
    /\ Acquisitions[1].arg = "Timeout"
    /\ prepared.tag = "Err"

\* C5 as claimed: when Framework::render fails, the failure is logged and
\* the loop goes on: control flow is not Exit and the loop is not exiting.
C5_RenderFailureKeepsLoop ==
    (RenderRan /\ prepared.tag = "Err") =>
      /\ Count(calls, "error!") = 1
      /\ control_flow # "Exit"
      /\ ~exiting

\* C6: a resize with a zero dimension changes nothing: the handler that
\* meets it leaves the stored surface size, the surface configuration, the
\* ScreenDescriptor and the window size of the configuration as they were,
\* and configures nothing.
C6_ZeroResizeNoOp ==
    [][(event' = "MainEventsCleared" /\ ZeroArea(input.window_resized)) =>
         /\ framework'.gpu = framework.gpu
         /\ framework'.screen_descriptor = framework.screen_descriptor
         /\ framework'.config = framework.config
         /\ Count(calls', "configure") = 0]_vars

\* C6 witness: the UI pass of a batch whose resize had a zero dimension
C6_Witness ==
    /\ UiPassRan
    /\ ZeroArea(input.window_resized)
    /\ framework.gpu.surface.width > 0
    /\ framework.gpu.surface.height > 0

\* C7 as claimed: while the window's last reported size has a zero dimension
\* the surface keeps a configuration with positive extent and no handler
\* acquires a frame.
C7_NoAcquisitionWhileMinimized ==
    minimized =>
      /\ framework.gpu.surface.width > 0
      /\ framework.gpu.surface.height > 0
      /\ Count(calls, "get_current_texture") = 0

\* C8: after Framework::resize with a size of positive extent the surface is
\* configured with exactly that size and the ScreenDescriptor holds it; the
\* surface configuration always equals the stored size, so every frame
\* acquired, on the first attempt or on the retry, has the configured extent,
\* which in the iteration of the resize is the new size.
C8_ResizeThenFrameMatches ==
    /\ framework.gpu.surface =
         [width |-> framework.gpu.window_size[1],
          height |-> framework.gpu.window_size[2]]
    /\ (UiPassRan /\ Positive(input.window_resized)) =>
         /\ Count(calls, "configure") = 1
         /\ calls[1] = Call("configure", input.window_resized)
         /\ framework.gpu.window_size = input.window_resized
         /\ framework.screen_descriptor.size_in_pixels = input.window_resized
    /\ (RenderRan /\ prepared.tag = "Ok") =>
         /\ prepared.frame = framework.gpu.window_size
         /\ Count(calls, "present") = 1
         /\ \A i \in Positions(calls, "present") :
              calls[i].arg = framework.screen_descriptor.size_in_pixels
         /\ (Positive(input.window_resized) /\ ~input.quit) =>
              prepared.frame = input.window_resized

\* C8 witness: a frame of the new size, acquired on the retry in the
\* iteration of a resize to a size of positive extent
C8_Witness ==
    /\ RenderRan
    /\ prepared.tag = "Ok"
    /\ Len(Acquisitions) = 2
    /\ Positive(input.window_resized)
    /\ ~input.quit
    /\ prepared.frame = input.window_resized
    /\ Count(calls, "configure") = 1

\* C9: in one Framework::render, every primitive of the batch is drawn inside
\* the render pass, in list order, before any texture is freed, and every
\* upload comes before the first draw.
C9_FreeAfterDraws ==
    (RenderRan /\ prepared.tag = "Ok") =>
      /\ Count(calls, "draw") = Len(framework.clipped_primitives)
      /\ SelectSeq(calls, LAMBDA c : c.op = "draw") =
           [k \in 1..Len(framework.clipped_primitives) |->
              Call("draw", framework.clipped_primitives[k])]
      /\ AllBefore(calls, "begin_render_pass", "draw")
      /\ AllBefore(calls, "draw", "end_render_pass")
      /\ AllBefore(calls, "draw", "free_texture")
      /\ AllBefore(calls, "update_texture", "draw")
      /\ AllBefore(calls, "update_texture", "begin_render_pass")

\* C9 witness: a render that uploads, draws and frees
C9_Witness ==
    /\ RenderRan
    /\ Count(calls, "update_texture") > 0
    /\ Count(calls, "draw") > 0
    /\ Count(calls, "free_texture") > 0

\* C10 as claimed: a texture is freed only after the commands have been
\* submitted to the queue.
C10_FreeAfterSubmit ==
    \A i \in Positions(calls, "free_texture") :
      \E j \in Positions(calls, "submit") : j < i

\* C10 amended: a texture is freed only after the render pass holding the
\* draw commands has been closed, and before those commands are submitted.
C10_FreeBetweenPassAndSubmit ==
    \A i \in Positions(calls, "free_texture") :
      /\ \E j \in Positions(calls, "end_render_pass") : j < i
      /\ \E j \in Positions(calls, "submit") : i < j
      /\ Count(calls, "end_render_pass") = 1
      /\ Count(calls, "submit") = 1

\* C10 witness: a render that draws and frees
C10_Witness ==
    /\ RenderRan
    /\ Count(calls, "draw") > 0
    /\ Count(calls, "free_texture") > 0
    /\ Count(calls, "submit") = 1

\* the threads that have been spawned and not joined
Outstanding == {id \in 1..Len(threads) : threads[id].status # "joined"}

\* the thread the last UI pass joined, when it joined one
Joined == calls[CHOOSE i \in Positions(calls, "join") : TRUE].arg[1]

\* C11: a UI pass that joins a finished thread replaces the loaded model
\* only when the thread returned Ok(Some(db)); on Ok(None) and on a panic
\* the model the Gui held before the pass, present or absent, is the model
\* it holds after the poll (a Close click later in the pass aside).
C11_EmptyResultKeepsModel ==
    [][(Count(calls', "join") = 1 /\ gui' # gui) =>
         LET id == gui.file_dialog[1]
             r == threads[id]
         IN /\ gui.file_dialog # None
            /\ r.status = "finished"
            /\ Count(calls', "clicked") = 0 =>
                 gui'.vcd = IF r.tag = "Ok" /\ r.value # None
                            THEN r.value
                            ELSE gui.vcd]_vars

\* C11 witness: a model is loaded, and the pass that joined a later thread
\* which returned Ok(None) has left that model in place
C11_Witness ==
    /\ Count(calls, "join") = 1
    /\ Count(calls, "clicked") = 0
    /\ threads[Joined].tag = "Ok"
    /\ threads[Joined].value = None
    /\ gui.vcd # None
    /\ gui.vcd # SignalDB(Joined)

\* C11 other case reached: the joined thread had panicked and the model
\* loaded before is still there
C11_PanicKeepsModel ==
    /\ Count(calls, "join") = 1
    /\ Count(calls, "clicked") = 0
    /\ threads[Joined].tag = "Err"
    /\ gui.vcd # None

\* C12: a UI pass joins a thread only after is_finished has returned true
\* for it in that pass, so the join finds the closure over and does not
\* wait; the handle is taken out of the Gui before the join, a pass joins at
\* most one thread, a thread that has been joined is never the stored handle
\* again, so no thread is joined twice.
C12_JoinOnlyFinishedOnce ==
    /\ [](/\ Count(calls, "join") <= 1
          /\ \A j \in Positions(calls, "join") :
               /\ j = 3
               /\ calls[1] = Call("is_finished", <<calls[j].arg[1], TRUE>>)
               /\ calls[2] = Call("take", calls[j].arg)
          /\ gui.file_dialog # None =>
               threads[gui.file_dialog[1]].status # "joined")
    /\ [][(Count(calls', "join") = 1 /\ gui' # gui) =>
            /\ gui.file_dialog # None
            /\ calls'[3].arg = gui.file_dialog
            /\ threads[gui.file_dialog[1]].status = "finished"
            /\ threads'[gui.file_dialog[1]].status = "joined"
            /\ gui'.file_dialog # gui.file_dialog]_vars
    /\ [][\A id \in 1..Len(threads) :
            threads[id].status = "joined" => threads'[id] = threads[id]]_vars

\* C12 witness: the second thread has just been joined, in a pass of its
\* own, after the first one was
C12_Witness ==
    /\ Count(calls, "join") = 1
    /\ Joined = 2
    /\ threads[1].status = "joined"
    /\ threads[2].status = "joined"
    /\ gui.file_dialog = None

\* C12 other case reached: a pass found the thread still running, asked
\* is_finished and went on without joining
C12_StillRunning ==
    /\ calls = <<Call("is_finished", <<1, FALSE>>)>>
    /\ threads[1].status = "running"
    /\ gui.file_dialog = JoinHandle(1)

\* C13 as claimed: a positive repaint delay is honoured: the loop does not
\* stay asleep past the delay the last UI pass returned, it wakes when the
\* delay is over and redraws, whether or not an event has arrived.
C13_RepaintDelayHonoured ==
    (stage = "Idle" /\ ~exiting /\ repaint > 0) => waited <= repaint

\* C14: a redraw that handle_event reports is pending from then on and stays
\* pending until the redraw handler calls Framework::render; the handler
\* that ends a batch runs a UI pass, or is the quit that ends the loop; a
\* batch that ends with a redraw pending is followed by the redraw handler
\* and nothing else; and the loop never goes back to sleep, to wait for the
\* next event, with a redraw still pending.
C14_NoMissedRedraw ==
    /\ [][(event' = "WindowEvent" /\ calls'[1] = Call("handle_event", TRUE)) =>
            (Count(calls', "request_redraw") = 1 /\ redraw_pending')]_vars
    /\ [][(redraw_pending /\ ~redraw_pending') =>
            (RenderRan' /\ Count(calls', "get_current_texture") > 0)]_vars
    /\ [][(stage = "Events" /\ stage' # "Events") =>
            /\ UiPassRan' \/ (input.quit /\ (exiting' \/ stage' = "Panicked"))
            /\ redraw_pending => stage' \in {"Redraw", "Panicked"}]_vars
    /\ [][(stage = "Redraw" /\ stage' # "Redraw") =>
            (RenderRan' \/ (exiting /\ stage' = "Destroyed"))]_vars
    /\ [][stage' = "Idle" => (stage \in {"Idle", "Cleared"} /\ ~exiting')]_vars
    /\ []((stage = "Idle" /\ control_flow = "Wait") => ~redraw_pending)

\* C14 witness: a render in an iteration whose UI pass returned a positive
\* delay and so asked for no redraw itself: the redraw delivered is one that
\* was pending when the batch ended, and the loop will sleep with none left
C14_Witness ==
    /\ RenderRan
    /\ prepared.tag = "Ok"
    /\ repaint > 0
    /\ input = step
    /\ control_flow = "Wait"
    /\ ~redraw_pending
    /\ Count(calls, "present") = 1

\* C15 as claimed: the handler that sees the quit logs a failure of the
\* save and shows it, and whether the save succeeded or failed it sets the
\* control flow to Exit, and runs no UI pass and no render.
C15_QuitAlwaysExits ==
    (event = "MainEventsCleared" /\ input.quit) =>
      /\ Count(calls, "save") = 1
      /\ calls[1].arg # "Ok" =>
           /\ calls[2] = Call("error!", calls[1].arg)
           /\ calls[3] = Call("msgbox", calls[1].arg)
      /\ Count(calls, "ui") = 0
      /\ Count(calls, "get_current_texture") = 0
      /\ control_flow = "Exit"
      /\ exiting

\* C15 case reached: the save failed, the box was shown and the loop exits
C15_ShownAndExits ==
    /\ event = "MainEventsCleared"
    /\ input.quit
    /\ calls = <<Call("save", "Io"), Call("error!", "Io"), Call("msgbox", "Io")>>
    /\ control_flow = "Exit"
    /\ exiting

C17_RenderReevaluates ==
    /\ []((RenderRan /\ prepared.tag = "Ok") =>
            IF repaint = 0
            THEN /\ control_flow = "Poll"
                 /\ RedrawRequests = 1
                 /\ calls[Len(calls)].op = "request_redraw"
                 /\ redraw_pending
            ELSE /\ control_flow = "Wait"
                 /\ RedrawRequests = 0
                 /\ ~redraw_pending)
    /\ [][repaint' # repaint => UiPassRan']_vars
    /\ [][RenderRan' => repaint' = repaint]_vars

\* C17 witness: a successful render after a UI pass that returned zero, with
\* Poll set and the next redraw requested after the frame was presented
C17_Witness ==
    /\ RenderRan
    /\ prepared.tag = "Ok"
    /\ repaint = 0
    /\ control_flow = "Poll"
    /\ redraw_pending
    /\ calls[Len(calls) - 1].op = "present"
    /\ calls[Len(calls)].op = "request_redraw"

\* C18: Framework::handle_event is called only by the handler of a window
\* event, an event for which input.update returned false, and by that one
\* exactly once, as its first call; when it reports a repaint the handler
\* requests one redraw and sets Poll, and when it does not the handler
\* requests none and sets Wait.
C18_ForwardAndDecide ==
    /\ Count(calls, "handle_event") > 0 =>
         (event = "WindowEvent" /\ ~update(event))
    /\ update(event) => Count(calls, "handle_event") = 0
    /\ event = "WindowEvent" =>
         /\ Count(calls, "handle_event") = 1
         /\ calls[1].op = "handle_event"
         /\ IF calls[1].arg
            THEN /\ calls = <<Call("handle_event", TRUE),
                              Call("request_redraw", None)>>
                 /\ control_flow = "Poll"
                 /\ redraw_pending
            ELSE /\ calls = <<Call("handle_event", FALSE)>>
                 /\ control_flow = "Wait"

\* C18 witness: a window event of a batch in which the input layer has
\* noted a close request, forwarded all the same, and answered by a repaint
C18_Witness ==
    /\ event = "WindowEvent"
    /\ input.quit
    /\ calls = <<Call("handle_event", TRUE), Call("request_redraw", None)>>
    /\ control_flow = "Poll"
    /\ redraw_pending

\* C19: a handler acquires at most one frame, and a frame is presented only
\* in the handler that acquired it, after the acquisition, exactly once: as
\* many presents as acquisitions in every trace. With a frame acquired the
\* commands are submitted once, before the present, the present is the
\* last call of Framework::render (only maybe_redraw's request may follow
\* it in the handler) and what is presented is the frame Gpu::prepare
\* returned; when Gpu::prepare fails nothing is submitted or presented. The
\* Framework has no field that holds a frame from one render to the next.
C19_FrameConsumedOnce ==
    /\ DOMAIN framework = {"gpu", "screen_descriptor", "config",
                           "clipped_primitives", "textures_delta"}
    /\ DOMAIN framework.gpu = {"window_size", "surface"}
    /\ Cardinality(Acquired) <= 1
    /\ Count(calls, "present") = Cardinality(Acquired)
    /\ Count(calls, "submit") = Cardinality(Acquired)
    /\ \A j \in Positions(calls, "present") : \A i \in Acquired : i < j
    /\ Acquired # {} => (RenderRan /\ prepared.tag = "Ok")
    /\ (RenderRan /\ prepared.tag = "Ok") =>
         /\ Cardinality(Acquired) = 1
         /\ AllBefore(calls, "submit", "present")
         /\ calls[Len(calls) - RedrawRequests] = Call("present", prepared.frame)
         /\ calls[Len(calls) - RedrawRequests - 1].op = "submit"
         /\ \A i \in 1..Len(calls) :
              i > Len(calls) - RedrawRequests => calls[i].op = "request_redraw"
    /\ (RenderRan /\ prepared.tag = "Err") =>
         /\ Acquired = {}
         /\ Count(calls, "submit") = 0
         /\ Count(calls, "present") = 0

\* C19 witness: the frame acquired on the retry after Outdated, submitted
\* and then presented, with the next redraw requested after the present
C19_Witness ==
    /\ RenderRan
    /\ Len(Acquisitions) = 2
    /\ Cardinality(Acquired) = 1
    /\ calls[Len(calls) - 2].op = "submit"
    /\ calls[Len(calls) - 1] = Call("present", prepared.frame)
    /\ calls[Len(calls)].op = "request_redraw"

\* C20: in the macOS build the checkpoint reads the time since `now`; when
\* that is less than the frame budget it sleeps for the budget less that
\* time, and so returns no earlier than a full budget after `now`, and when
\* it is not it does not sleep and the clock stands still; either way `now`
\* is then set to the time the checkpoint is over, a frame budget or more
\* after the value it had. In any other build the checkpoint never sleeps
\* and reads no clock.
C20_CheckpointPacing ==
    [][(stage = "Cleared" /\ event' = "RedrawEventsCleared") =>
         IF macos
         THEN /\ calls'[1] = Call("elapsed", clock - now)
              /\ IF clock - now < FrameBudget
                 THEN /\ Count(calls', "sleep") = 1
                      /\ calls'[2] = Call("sleep", FrameBudget - (clock - now))
                      /\ clock' >= clock + (FrameBudget - (clock - now))
                 ELSE /\ Count(calls', "sleep") = 0
                      /\ clock' = clock
              /\ calls'[Len(calls')] = Call("Instant::now", clock')
              /\ now' = clock'
              /\ now' >= now + FrameBudget
         ELSE /\ calls' = <<>>
              /\ clock' = clock
              /\ now' = now]_vars

\* C20 witness: the second checkpoint of a macOS run, reached one tick
\* after the first was over, has slept the one tick that was left
C20_Witness ==
    /\ macos
    /\ event = "RedrawEventsCleared"
    /\ calls = <<Call("elapsed", 1), Call("sleep", 1),
                 Call("Instant::now", 2 * FrameBudget)>>
    /\ now = 2 * FrameBudget
    /\ clock = now

\* C20 other cases reached: a macOS checkpoint that found the budget used up
\* and did not sleep, and the checkpoint of another build after time passed
C20_NoSleep ==
    \/ /\ macos
       /\ event = "RedrawEventsCleared"
       /\ calls = <<Call("elapsed", MaxElapsed), Call("Instant::now", MaxElapsed)>>
    \/ /\ ~macos
       /\ event = "RedrawEventsCleared"
       /\ clock > 0
       /\ calls = <<>>

\* C21 as claimed: no content of a batch is lost: when a UI pass replaces
\* the stored batch, every upload and every free of the batch it replaces
\* has been applied by a render, so the texture delta it replaces is the
\* empty one a render leaves behind; a render applies each upload and each
\* free of the stored delta once and leaves none to apply again.
C21_NoBatchContentLost ==
    /\ [][(stage = "Events" /\ stage' # "Events" /\ UiPassRan') =>
            framework.textures_delta = NoTexturesDelta]_vars
    /\ [][(stage = "Redraw" /\ RenderRan' /\ prepared'.tag = "Ok") =>
            /\ SelectSeq(calls', LAMBDA c : c.op = "update_texture") =
                 UploadCalls(framework.textures_delta)
            /\ SelectSeq(calls', LAMBDA c : c.op = "free_texture") =
                 FreeCalls(framework.textures_delta)
            /\ framework'.textures_delta = NoTexturesDelta]_vars

\* C21 case reached: a render in an iteration that ran no UI pass (its
\* batch held a quit), with no upload and no free left to apply
C21_SecondRenderAppliesNothing ==
    /\ RenderRan
    /\ prepared.tag = "Ok"
    /\ input.quit
    /\ Count(calls, "update_texture") = 0
    /\ Count(calls, "free_texture") = 0
    /\ Count(calls, "present") = 1

\* C22: once the UI pass and the redraw handler of an iteration are over,
\* at the RedrawEventsCleared checkpoint and while the loop then waits for
\* the next batch, a loop that is not exiting has the control flow at Poll
\* when `repaint`, the delay of the most recent UI pass, is zero and at Wait
\* when it is positive; a UI pass sets it so whatever the window events of
\* the batch had set before.
C22_FlowFollowsRepaint ==
    /\ []((stage \in {"Cleared", "Idle"} /\ ~exiting) =>
            IF repaint = 0
            THEN control_flow = "Poll"
            ELSE control_flow = "Wait")
    /\ [][(stage = "Events" /\ UiPassRan' /\ stage' # "Events") =>
            control_flow' = IF repaint' = 0 THEN "Poll" ELSE "Wait"]_vars
    /\ [][(event' = "RedrawEventsCleared" /\ stage = "Cleared") =>
            (control_flow' = Entry /\ repaint' = repaint)]_vars

\* C22 witness: the checkpoint of an iteration whose batch held a resize
\* and whose UI pass returned a positive delay: the loop will wait
C22_Witness ==
    /\ event = "RedrawEventsCleared"
    /\ stage = "Idle"
    /\ ~exiting
    /\ input.window_resized # None
    /\ repaint > 0
    /\ control_flow = "Wait"
    /\ ~redraw_pending

\* C23: the Gui is disabled exactly while it holds a handle; at most one
\* thread is spawned and not yet joined, and it is the thread of the handle
\* held; a pass spawns only while no handle is held at that point of the
\* pass, and the handle held is given up only by the pass that joins its
\* thread, so no handle is overwritten unjoined.
C23_DisabledWhileHandleHeld ==
    /\ [](/\ gui.enabled <=> gui.file_dialog = None
          /\ Cardinality(Outstanding) <= 1
          /\ \A id \in Outstanding : gui.file_dialog = JoinHandle(id)
          /\ gui.file_dialog # None => gui.file_dialog[1] \in Outstanding
          /\ Count(calls, "spawn") <= 1)
    /\ [][(gui.file_dialog # None /\ gui'.file_dialog # gui.file_dialog) =>
            /\ threads[gui.file_dialog[1]].status = "finished"
            /\ threads'[gui.file_dialog[1]].status = "joined"
            /\ calls'[3] = Call("join", gui.file_dialog)
            /\ AllBefore(calls', "join", "spawn")]_vars
    /\ [][Len(threads') > Len(threads) =>
            /\ Len(threads') = Len(threads) + 1
            /\ Outstanding' = {Len(threads')}
            /\ gui'.file_dialog = JoinHandle(Len(threads'))
            /\ ~gui'.enabled]_vars

\* C23 witness: a pass has found the second thread still running, with its
\* handle held and the Gui disabled, the first thread having been joined
C23_Witness ==
    /\ calls = <<Call("is_finished", <<2, FALSE>>)>>
    /\ ~gui.enabled
    /\ gui.file_dialog = JoinHandle(2)
    /\ threads[1].status = "joined"
    /\ Outstanding = {2}

\* C24: the configuration a quit saves holds the size of the most recent
\* non-zero resize reported before the quit was handled: a batch that does
\* not quit writes its non-zero resize to the configuration, nothing else
\* changes the configuration, and a batch that quits saves a configuration
\* holding the non-zero resize reported in that same batch.
C24_QuitSavesLatestResize ==
    /\ [][(stage = "Events" /\ stage' # "Events" /\ ~input.quit
              /\ Positive(input.window_resized)) =>
            framework'.config =
                set_window_size(framework.config, input.window_resized[1],
                                input.window_resized[2], scale_factor)]_vars
    /\ [][framework'.config # framework.config =>
            (stage = "Events" /\ ~input.quit
               /\ Positive(input.window_resized))]_vars
    /\ []((/\ event = "MainEventsCleared"
           /\ Count(calls, "save") = 1
           /\ calls[1].arg = "Ok"
           /\ Positive(input.window_resized)) =>
            framework.config =
                set_window_size(framework.config, input.window_resized[1],
                                input.window_resized[2], scale_factor))

\* the part of C24 about earlier batches: the configuration follows the
\* resizes of the batches that do not quit, and nothing else writes it
C24_EarlierResizeKept ==
    /\ [][(stage = "Events" /\ stage' # "Events" /\ ~input.quit
              /\ Positive(input.window_resized)) =>
            framework'.config =
                set_window_size(framework.config, input.window_resized[1],
                                input.window_resized[2], scale_factor)]_vars
    /\ [][framework'.config # framework.config =>
            (stage = "Events" /\ ~input.quit
               /\ Positive(input.window_resized))]_vars

\* a quit whose batch reports no resize saves the configuration written by
\* the resize of an earlier batch
C24_EarlierResizeSaved ==
    /\ event = "MainEventsCleared"
    /\ Count(calls, "save") = 1
    /\ calls[1].arg = "Ok"
    /\ input.window_resized = None
    /\ scale_factor = 2
    /\ framework.gpu.window_size = <<1, 1>>
    /\ framework.config = [window_width |-> 0, window_height |-> 0]

=============================================================================
